---- MODULE Spec2Model ----
(***************************************************************************)
(* Model of the drowsiness-detection backend (src/main.py): the startup    *)
(* memo loader, the WebSocket channel handler and its request pipeline.    *)
(*                                                                         *)
(* The event loop is single threaded and on_message is a plain (non        *)
(* coroutine) method, so one handler invocation is one atomic action.      *)
(* The framework runs initialize and open of a new connection in two       *)
(* callbacks of the loop, so they are two actions.                         *)
(* ModelMemo, ModelSelection and DataProcessor are imported from modules   *)
(* whose source is not available; their behaviour follows the written      *)
(* specification.                                                          *)
(***************************************************************************)
EXTENDS Integers, Sequences, FiniteSets, TLC

\* ---------------------------------------------------------------- bounds
\* total number of inbound messages sent by clients over a run
MaxMsgs == 2

\* the same total for the deployment of __main__ alone
MaxMsgsMain == 3

\* ------------------------------------------------------------ vocabulary
None == "None"

\* the connections (one WsChannelHandler object each), named in the order
\* in which the server accepts them
Channels == {"c1", "c2"}
Earlier(s) == IF s = "c2" THEN {"c1"} ELSE {}

\* ModelSelection: the registered architecture ids
Registry == {"m1", "m2"}

\* ModelSelection.get_model_canonical_name for a registered id
CanonicalOf(id) == IF id = "m1" THEN "Model One" ELSE "Model Two"

\* values a request may carry in architecture_a / architecture_b
ArchValues == Registry \cup {"missing_id", None}

\* values a request may carry in image: absent, a photo without a face,
\* a photo with a face
ImageValues == {None, "noface", "face"}

ModeValues == {"normal", "compare"}

\* inbound messages: the requests with a face photo and two ids of which
\* one is m1, the compare requests with a face photo whose first id is m2
\* (the outcomes that do not depend on m1), the requests with one field
\* absent, and a request with a photo without a face
AllMessages ==
    [image : ImageValues, architecture_a : ArchValues,
     architecture_b : ArchValues, mode : ModeValues]

Absent(m) == {f \in {"image", "architecture_a", "architecture_b"} : m[f] = None}

Messages ==
    {m \in AllMessages :
        \/ /\ m.image = "face" /\ Absent(m) = {}
           /\ \/ "m1" \in {m.architecture_a, m.architecture_b}
              \/ m.architecture_a = "m2" /\ m.mode = "compare"
        \/ /\ Cardinality(Absent(m)) = 1 /\ m.image \in {None, "face"}
           /\ m.architecture_a \in {"m1", None}
           /\ m.architecture_b \in {"m2", None}
           /\ m.mode = "normal"
        \/ /\ m.image = "noface" /\ Absent(m) = {}
           /\ m.architecture_a = "m1" /\ m.architecture_b = "m2"
           /\ m.mode = "normal"}

\* ------------------------------------------------------------- variables
VARIABLES
    proc,        \* "starting" | "serving" | "crashed"
    ctorFails,   \* registered ids whose constructor raises
    memoObj,     \* what make_app passes as memo: "ModelMemo" | None
    memo,        \* the ModelMemo dictionary: id -> model instance
    nextInst,    \* number of model instances constructed so far
    ctorRuns,    \* id -> number of times the constructor was run
    returned,    \* id -> set of instances _load_architecture returned
    conn,        \* channel -> the connection: "new" | "initialized" |
                 \*   "open" | "peer_closed" | "stream_closed" | "closed"
    channel,     \* channel -> handler attribute self.channel
    hasMemo,     \* channel -> whether the handler has attribute self.memo
    nextUuid,    \* number of uuids generated so far
    inbox,       \* channel -> sequence numbers of messages in flight
    sent,        \* channel -> number of messages the client has sent
    outbox,      \* channel -> statuses written, tagged with the request
    handled,     \* channel -> sequence numbers on_message ran for
    last         \* trace of the most recent on_message invocation

vars == <<proc, ctorFails, memoObj, memo, nextInst, ctorRuns, returned,
          conn, channel, hasMemo, nextUuid, inbox, sent, outbox, handled,
          last>>

srvVars == <<proc, ctorFails, memoObj, memo, nextInst, ctorRuns, returned>>

\* ------------------------------------------------------ collaborators
EmptyFn == [x \in {} |-> None]

\* ModelMemo.has_memo
has_memo(m, name) == name \in DOMAIN m

\* ModelMemo.add_memo
add_memo(m, name, inst) == [x \in (DOMAIN m) \cup {name} |->
                               IF x = name THEN inst ELSE m[x]]

\* ModelMemo.get_memo
get_memo(m, name) == m[name]

\* a model instance: which architecture, and which construction it is
NewInstance(id, n) == [arch |-> id, n |-> n]

\* Model.trigger_predict: deterministic in the architecture and the face
trigger_predict(inst, face) ==
    IF inst.arch = "m1"
    THEN [prediction |-> "DROWSY", confidence |-> 9]
    ELSE [prediction |-> "ALERT", confidence |-> 4]

\* DataProcessor.postprocess_message: validation_result
validation_result(message) ==
    /\ message.image # None
    /\ message.architecture_a # None
    /\ message.architecture_b # None

\* the external face detector
Detect(image) ==
    IF image = "face"
    THEN [face_image |-> "crop", position |-> "box"]
    ELSE [face_image |-> None, position |-> None]

\* DataProcessor.face_detect: detection runs only after parsing succeeded
face_detect(message) ==
    IF validation_result(message)
    THEN [face_detection |-> Detect(message.image), detectorCalls |-> 1]
    ELSE [face_detection |-> [face_image |-> None, position |-> None],
          detectorCalls |-> 0]

\* DataProcessor.is_normal_mode
is_normal_mode(message) == message.mode = "normal"

\* ------------------------------------------------- the request pipeline
NoInstance == [arch |-> None, n |-> 0]
NoPrediction == [prediction |-> None, confidence |-> 0]

\* the effects one on_message invocation has accumulated so far
StartOfHandler(m, n) ==
    [memo |-> m, nextInst |-> n, lookups |-> <<>>, ctors |-> <<>>,
     rets |-> <<>>, predicts |-> <<>>, exc |-> "none", ret |-> NoInstance]

\* ModelSelection.get_model(name)(): look the constructor up and run it
ConstructModel(h, fails, name) ==
    IF name \notin Registry
    THEN [h EXCEPT !.exc = "UnknownArchitecture"]
    ELSE IF name \in fails
    THEN [h EXCEPT !.ctors = Append(@, name),
                   !.exc = "ModelConstructionFailure"]
    ELSE [h EXCEPT !.ctors = Append(@, name),
                   !.nextInst = @ + 1,
                   !.ret = NewInstance(name, h.nextInst + 1)]

\* variant: storing a model drops the models stored before
store_and_get_evicts(c, name) ==
    IF c.exc # "none" THEN c
    ELSE [c EXCEPT !.memo = add_memo(EmptyFn, name, c.ret),
                   !.ret = get_memo(add_memo(EmptyFn, name, c.ret), name),
                   !.rets = Append(@, get_memo(add_memo(EmptyFn, name, c.ret),
                                               name))]

\* _load_architecture, after the constructor ran: add_memo, then get_memo
store_and_get(c, name) ==
    IF c.exc # "none" THEN c
    ELSE [c EXCEPT !.memo = add_memo(c.memo, name, c.ret),
                   !.ret = get_memo(add_memo(c.memo, name, c.ret), name),
                   !.rets = Append(@, get_memo(add_memo(c.memo, name, c.ret),
                                               name))]

\* WsChannelHandler._load_architecture
\* self.memo is only ever assigned a ModelMemo (_set_memo), so without one
\* the attribute read itself fails and the unmemoised branch is not reached.
_load_architecture(h, memoAttr, fails, name) ==
    IF ~memoAttr
    THEN [h EXCEPT !.exc = "AttributeError"]
    ELSE IF ~has_memo(h.memo, name)
    THEN store_and_get(
             ConstructModel([h EXCEPT !.lookups = Append(@, name)],
                            fails, name),
             name)
    ELSE [h EXCEPT !.lookups = Append(@, name),
                   !.ret = get_memo(h.memo, name),
                   !.rets = Append(@, get_memo(h.memo, name))]

\* one call of trigger_predict on the instance just resolved
Invoke(h, face) ==
    [h EXCEPT !.predicts = Append(@, [inst |-> h.ret, face |-> face])]

\* variant: the second model is invoked but its result is dropped
prediction_b_reuse_a(lb, pa, face) ==
    IF lb.exc # "none"
    THEN [h |-> lb, a |-> pa, b |-> NoPrediction]
    ELSE [h |-> Invoke(lb, face), a |-> pa, b |-> pa]

\* _get_prediction_objects, second statement: prediction_b in compare mode,
\* given the outcome lb of resolving architecture_b
prediction_b(lb, pa, face) ==
    IF lb.exc # "none"
    THEN [h |-> lb, a |-> pa, b |-> NoPrediction]
    ELSE [h |-> Invoke(lb, face), a |-> pa,
          b |-> trigger_predict(lb.ret, face)]

\* variant: the second model is resolved and invoked in every mode
prediction_a_always_b(la, memoAttr, fails, message, face) ==
    IF la.exc # "none"
    THEN [h |-> la, a |-> NoPrediction, b |-> NoPrediction]
    ELSE prediction_b(
             _load_architecture(Invoke(la, face), memoAttr, fails,
                                message.architecture_b),
             trigger_predict(la.ret, face), face)

\* _get_prediction_objects, first statement: prediction_a = prediction_b =
\* the result of the model of architecture_a, given the outcome la of
\* resolving it; then the second statement unless the mode is normal
prediction_a(la, memoAttr, fails, message, face) ==
    IF la.exc # "none"
    THEN [h |-> la, a |-> NoPrediction, b |-> NoPrediction]
    ELSE IF is_normal_mode(message)
    THEN [h |-> Invoke(la, face), a |-> trigger_predict(la.ret, face),
          b |-> trigger_predict(la.ret, face)]
    ELSE prediction_b(
             _load_architecture(Invoke(la, face), memoAttr, fails,
                                message.architecture_b),
             trigger_predict(la.ret, face), face)

\* WsChannelHandler._get_prediction_objects
_get_prediction_objects(h, memoAttr, fails, message, face) ==
    prediction_a(
        _load_architecture(h, memoAttr, fails, message.architecture_a),
        memoAttr, fails, message, face)

\* one entry of the success payload
Verdict(name, p) ==
    [name |-> name, canonical_name |-> CanonicalOf(name),
     detection |-> IF p.prediction = "DROWSY" THEN "drowsy" ELSE "alert",
     confidence |-> p.confidence]

ErrorMessage == [status |-> "error"]

\* variant: verdict B is labelled with architecture_a
SuccessMessage_b_named_a(message, pa, pb, position) ==
    [status |-> "success",
     architecture_a |-> Verdict(message.architecture_a, pa),
     architecture_b |-> Verdict(message.architecture_a, pb),
     position |-> position]

\* run_process: the success message
SuccessMessage(message, pa, pb, position) ==
    [status |-> "success",
     architecture_a |-> Verdict(message.architecture_a, pa),
     architecture_b |-> Verdict(message.architecture_b, pb),
     position |-> position]

DoneMessage == [status |-> "done"]

\* self.write_message: the stream takes the message while it has taken
\* fewer than accepts messages in this invocation; after that the stream
\* has closed and write_message raises WebSocketClosedError
write_message(r, msg, accepts) ==
    IF Len(r.out) < accepts
    THEN [r EXCEPT !.out = Append(@, msg)]
    ELSE [r EXCEPT !.h.exc = "WebSocketClosedError"]

\* run_process, from the predictions g on: the success message; the
\* canonical name of an unregistered architecture_b cannot be looked up
write_success(g, message, dp, accepts) ==
    IF g.h.exc # "none"
    THEN [h |-> g.h, out |-> <<>>, dp |-> dp]
    ELSE IF message.architecture_b \notin Registry
    THEN [h |-> [g.h EXCEPT !.exc = "UnknownArchitecture"],
          out |-> <<>>, dp |-> dp]
    ELSE write_message([h |-> g.h, out |-> <<>>, dp |-> dp],
                       SuccessMessage(message, g.a, g.b,
                                      dp.face_detection.position),
                       accepts)

\* run_process, from the data processor dp on: the error message and
\* return, or the predictions and the success message
after_face_detect(h, memoAttr, fails, message, dp, accepts) ==
    IF ~validation_result(message) \/ dp.face_detection.face_image = None
    THEN write_message([h |-> h, out |-> <<>>, dp |-> dp], ErrorMessage,
                       accepts)
    ELSE write_success(
             _get_prediction_objects(h, memoAttr, fails, message,
                                     dp.face_detection.face_image),
             message, dp, accepts)

\* on_message.run_process: what it writes, and the effects it had
run_process(h, memoAttr, fails, message, accepts) ==
    after_face_detect(h, memoAttr, fails, message, face_detect(message),
                      accepts)

\* variant: the completion message is written before the result
write_done_first(r, accepts) ==
    IF r.h.exc # "none" \/ accepts < 2 THEN r
    ELSE [r EXCEPT !.out = <<DoneMessage>> \o @]

\* on_message after run_process: the completion message; an exception
\* leaves run_process and on_message before the completion message is
\* written
write_done(r, accepts) ==
    IF r.h.exc # "none" THEN r
    ELSE write_message(r, DoneMessage, accepts)

\* on_message: run_process, then the completion message
on_message_result(h, memoAttr, fails, message, accepts) ==
    write_done(run_process(h, memoAttr, fails, message, accepts), accepts)

\* --------------------------------------------------------- bookkeeping
\* str(uuid.uuid4()): a value not generated before
Uuid(n) == "uuid-" \o ToString(n)

\* number of occurrences of id in a sequence of ids
RECURSIVE CountIn(_, _)
CountIn(seq, id) ==
    IF seq = <<>> THEN 0
    ELSE (IF Head(seq) = id THEN 1 ELSE 0) + CountIn(Tail(seq), id)

\* the instances of architecture id in a sequence of instances
InstancesOf(seq, id) == {seq[i] : i \in {j \in DOMAIN seq : seq[j].arch = id}}

RECURSIVE SumOver(_, _)
SumOver(f, S) ==
    IF S = {} THEN 0
    ELSE LET x == CHOOSE y \in S : TRUE IN f[x] + SumOver(f, S \ {x})

TotalSent == SumOver(sent, Channels)

NoMessage == [image |-> None, architecture_a |-> None,
              architecture_b |-> None, mode |-> None]

\* session-local state of a handler
SessionState(s) == [channel |-> channel[s], hasMemo |-> hasMemo[s]]

NoTrace == [chan |-> None, seq |-> 0, msg |-> NoMessage,
            validation_result |-> FALSE, face_image |-> None,
            detectorCalls |-> 0, lookups |-> <<>>, ctors |-> <<>>,
            rets |-> <<>>, predicts |-> <<>>, out |-> <<>>, exc |-> "none",
            memoBefore |-> EmptyFn, memoAfter |-> EmptyFn,
            session |-> [channel |-> None, hasMemo |-> FALSE],
            peer |-> "connected", connAfter |-> "new", prevChan |-> None]

\* ------------------------------------------------------------- the system
Init ==
    /\ proc = "starting"
    /\ ctorFails \in SUBSET Registry
    /\ memoObj = None
    /\ memo = EmptyFn
    /\ nextInst = 0
    /\ ctorRuns = [id \in Registry |-> 0]
    /\ returned = [id \in Registry |-> {}]
    /\ conn = [s \in Channels |-> "new"]
    /\ channel = [s \in Channels |-> None]
    /\ hasMemo = [s \in Channels |-> FALSE]
    /\ nextUuid = 0
    /\ inbox = [s \in Channels |-> <<>>]
    /\ sent = [s \in Channels |-> 0]
    /\ outbox = [s \in Channels |-> <<>>]
    /\ handled = [s \in Channels |-> <<>>]
    /\ last = NoTrace

chanVars == <<conn, channel, hasMemo, nextUuid, inbox, sent, outbox,
              handled, last>>

\* ModelSelection.get_model_keys, in the order load_memo iterates them
get_model_keys == <<"m1", "m2">>

\* load_memo: construct and store every registered model, in key order;
\* the first constructor that raises ends the loop (and the process)
RECURSIVE load_memo_from(_, _, _)
load_memo_from(h, fails, keys) ==
    IF keys = <<>> THEN h
    ELSE LET c == ConstructModel(h, fails, Head(keys))
         IN  IF c.exc # "none" THEN c
             ELSE load_memo_from(
                      [c EXCEPT !.memo = add_memo(c.memo, Head(keys), c.ret)],
                      fails, Tail(keys))

\* variant: only the first registered model is preloaded
load_memo_first_only(fails) ==
    load_memo_from(StartOfHandler(EmptyFn, 0), fails, <<"m1">>)

load_memo(fails) ==
    load_memo_from(StartOfHandler(EmptyFn, 0), fails, get_model_keys)

\* __main__: make_app(load_memo(g_model_selection), g_model_selection)
Main ==
    /\ proc = "starting"
    /\ LET h == load_memo(ctorFails)
       IN  /\ ctorRuns' = [id \in Registry |->
                              ctorRuns[id] + CountIn(h.ctors, id)]
           /\ nextInst' = h.nextInst
           /\ IF h.exc # "none"
              THEN /\ proc' = "crashed"
                   /\ UNCHANGED <<memo, memoObj>>
              ELSE /\ proc' = "serving"
                   /\ memo' = h.memo
                   /\ memoObj' = "ModelMemo"
    /\ UNCHANGED <<ctorFails, returned>>
    /\ UNCHANGED chanVars

\* make_app(memo, model_selection) as a deployment may call it: with an
\* empty ModelMemo (lazy construction) or without one
make_app(m) ==
    /\ proc = "starting"
    /\ proc' = "serving"
    /\ memoObj' = m
    /\ UNCHANGED <<ctorFails, memo, nextInst, ctorRuns, returned>>
    /\ UNCHANGED chanVars

\* the attributes initialize gives a new handler
initialize_self(m) == [channel |-> None, hasMemo |-> (m = "ModelMemo")]

\* the handler's attributes after open(channel)
open_self(self, given, uuid) ==
    IF given = None THEN [self EXCEPT !.channel = uuid] ELSE self

\* WsChannelHandler.initialize: a client connects and the framework
\* creates the handler; open runs in a later callback of the event loop
initialize(s) ==
    /\ proc = "serving"
    /\ conn[s] = "new"
    /\ \A t \in Earlier(s) : conn[t] # "new"
    /\ channel' = [channel EXCEPT ![s] = initialize_self(memoObj).channel]
    /\ hasMemo' = [hasMemo EXCEPT ![s] = initialize_self(memoObj).hasMemo]
    /\ conn' = [conn EXCEPT ![s] = "initialized"]
    /\ UNCHANGED srvVars
    /\ UNCHANGED <<nextUuid, inbox, sent, outbox, handled, last>>

\* WsChannelHandler.open: the handshake is over
open(s, given) ==
    /\ conn[s] = "initialized"
    /\ channel' = [channel EXCEPT ![s] =
                      open_self(SessionState(s), given,
                                Uuid(nextUuid + 1)).channel]
    /\ hasMemo' = [hasMemo EXCEPT ![s] =
                      open_self(SessionState(s), given,
                                Uuid(nextUuid + 1)).hasMemo]
    /\ nextUuid' = IF given = None THEN nextUuid + 1 ELSE nextUuid
    /\ conn' = [conn EXCEPT ![s] = "open"]
    /\ UNCHANGED srvVars
    /\ UNCHANGED <<inbox, sent, outbox, handled, last>>

\* the client sends one more message on an open connection; max bounds
\* the messages sent over the run
ClientSend(s, max) ==
    /\ conn[s] = "open"
    /\ TotalSent < max
    /\ sent' = [sent EXCEPT ![s] = @ + 1]
    /\ inbox' = [inbox EXCEPT ![s] = Append(@, sent[s] + 1)]
    /\ UNCHANGED srvVars
    /\ UNCHANGED <<conn, channel, hasMemo, nextUuid, outbox, handled, last>>

\* the client closes its socket; the messages it sent are still in flight
\* and the server has not read the end of the stream yet
ClientClose(s) ==
    /\ conn[s] = "open"
    /\ conn' = [conn EXCEPT ![s] = "peer_closed"]
    /\ UNCHANGED srvVars
    /\ UNCHANGED <<channel, hasMemo, nextUuid, inbox, sent, outbox, handled,
                   last>>

\* whether the client of s still holds its socket open
Peer(s) == IF conn[s] = "open" THEN "connected" ELSE "gone"

\* how many messages the stream of s takes during one on_message: both
\* while the client is connected; once the client has closed its socket
\* none, the result message only, or both, depending on when the transport
\* reports the closed peer; none once the stream has closed
Accepts(s) ==
    IF conn[s] = "open" THEN {2}
    ELSE IF conn[s] = "peer_closed" THEN {0, 1, 2}
    ELSE {0}

\* the message the event loop hands to on_message next
NextMessage(q) == Head(q)
RestOfQueue(q) == Tail(q)

\* the messages the framework can still hand to on_message once this one
\* is over: those that follow it; when the client has gone they may be
\* lost with the stream
Kept(s) ==
    IF conn[s] = "open" THEN {RestOfQueue(inbox[s])}
    ELSE {RestOfQueue(inbox[s]), <<>>}

\* the state of the connection once on_message has returned or raised: an
\* exception that leaves the handler makes the framework abort the
\* connection; after writes to a client that has gone the stream is
\* closed, and the framework hands a message still buffered to on_message
\* before it calls on_close
ConnAfter(exc, peer, rest) ==
    IF exc # "none" THEN "closed"
    ELSE IF peer = "connected" THEN "open"
    ELSE IF rest = <<>> THEN "closed"
    ELSE "stream_closed"

\* the handler's attributes once on_message is over: it assigns none
on_message_self(self) == self

\* on_message, its effects: r is what the handler did to message number k,
\* kept the messages the framework holds for it afterwards
handle(s, message, k, r, kept) ==
    /\ memo' = r.h.memo
    /\ nextInst' = r.h.nextInst
    /\ ctorRuns' = [id \in Registry |->
                       ctorRuns[id] + CountIn(r.h.ctors, id)]
    /\ returned' = [id \in Registry |->
                       returned[id] \cup InstancesOf(r.h.rets, id)]
    /\ outbox' = [outbox EXCEPT ![s] =
                     @ \o [i \in DOMAIN r.out |->
                              [seq |-> k, status |-> r.out[i].status]]]
    /\ handled' = [handled EXCEPT ![s] = Append(@, k)]
    /\ conn' = [conn EXCEPT ![s] = ConnAfter(r.h.exc, Peer(s), kept)]
    /\ inbox' = [inbox EXCEPT ![s] =
                    IF r.h.exc = "none" THEN kept ELSE <<>>]
    /\ last' = [chan |-> s, seq |-> k, msg |-> message,
                validation_result |-> validation_result(message),
                face_image |-> r.dp.face_detection.face_image,
                detectorCalls |-> r.dp.detectorCalls,
                lookups |-> r.h.lookups, ctors |-> r.h.ctors,
                rets |-> r.h.rets, predicts |-> r.h.predicts,
                out |-> r.out, exc |-> r.h.exc,
                memoBefore |-> memo, memoAfter |-> r.h.memo,
                session |-> on_message_self(SessionState(s)),
                peer |-> Peer(s),
                connAfter |-> ConnAfter(r.h.exc, Peer(s), kept),
                prevChan |-> last.chan]
    /\ channel' = [channel EXCEPT ![s] =
                      on_message_self(SessionState(s)).channel]
    /\ hasMemo' = [hasMemo EXCEPT ![s] =
                      on_message_self(SessionState(s)).hasMemo]
    /\ UNCHANGED <<proc, ctorFails, memoObj, nextUuid, sent>>

\* WsChannelHandler.on_message
on_message(s, message) ==
    /\ conn[s] \in {"open", "peer_closed", "stream_closed"}
    /\ inbox[s] # <<>>
    /\ \E accepts \in Accepts(s), kept \in Kept(s) :
           handle(s, message, NextMessage(inbox[s]),
                  on_message_result(StartOfHandler(memo, nextInst),
                                    hasMemo[s], ctorFails, message,
                                    accepts),
                  kept)

\* variant: closing a connection empties the shared memo
on_close_clears_memo(s) ==
    /\ conn[s] = "peer_closed"
    /\ conn' = [conn EXCEPT ![s] = "closed"]
    /\ inbox' = [inbox EXCEPT ![s] = <<>>]
    /\ memo' = EmptyFn
    /\ UNCHANGED <<proc, ctorFails, memoObj, nextInst, ctorRuns, returned>>
    /\ UNCHANGED <<channel, hasMemo, nextUuid, sent, outbox, handled, last>>

\* WsChannelHandler.on_close: the server finds the stream closed by the
\* client; what the client sent and on_message has not been given is lost
\* with the stream; the handler does nothing
on_close(s) ==
    /\ conn[s] = "peer_closed"
    /\ conn' = [conn EXCEPT ![s] = "closed"]
    /\ inbox' = [inbox EXCEPT ![s] = <<>>]
    /\ UNCHANGED srvVars
    /\ UNCHANGED <<channel, hasMemo, nextUuid, sent, outbox, handled, last>>

Next ==
    \/ Main
    \/ \E m \in {"ModelMemo", None} : make_app(m)
    \/ \E s \in Channels : initialize(s)
    \/ \E s \in Channels, given \in {None, "preassigned"} : open(s, given)
    \/ \E s \in Channels : ClientSend(s, MaxMsgs)
    \/ \E s \in Channels : ClientClose(s)
    \/ \E s \in Channels, message \in Messages : on_message(s, message)
    \/ \E s \in Channels : on_close(s)

Spec == Init /\ [][Next]_vars

\* the deployment of __main__: the application is only ever built from the
\* preloaded memo, and its route r'/ws' captures no channel id, so open is
\* called without one
NextMain ==
    \/ Main
    \/ \E s \in Channels : initialize(s)
    \/ \E s \in Channels : open(s, None)
    \/ \E s \in Channels : ClientSend(s, MaxMsgsMain)
    \/ \E s \in Channels : ClientClose(s)
    \/ \E s \in Channels, message \in Messages : on_message(s, message)
    \/ \E s \in Channels : on_close(s)

SpecMain == Init /\ [][NextMain]_vars

\* ================================================================ claims
\* an on_message invocation has happened; last describes it
Handled == last.seq > 0

Statuses(out) == [i \in DOMAIN out |-> out[i].status]

\* the request passed validation and face detection produced a face image
PassedValidation == last.validation_result /\ last.face_image # None

\* the session can resolve architecture id to a model: it holds the memo,
\* the id is registered, and the model is cached or its constructor works
Resolvable(id) ==
    /\ last.session.hasMemo
    /\ id \in Registry
    /\ (id \in DOMAIN last.memoBefore \/ id \notin ctorFails)

\* C1: for every registered architecture id the model constructor runs at
\* most once, and every lookup of the id returns the same instance.
C1_LoadOnce ==
    \A id \in Registry :
        /\ ctorRuns[id] <= 1
        /\ Cardinality(returned[id]) <= 1

\* C2: every handled message yields exactly one result message (error or
\* success) followed by exactly one done message, and nothing else,
\* whatever the outcome of the request.
C2_ResultThenDone ==
    Handled =>
        /\ Len(last.out) = 2
        /\ last.out[1].status \in {"error", "success"}
        /\ last.out[2].status = "done"

\* C3: a message that fails validation, or in which no face is found, is
\* answered with error then done, and while it is handled the model cache
\* is neither consulted nor changed, no model is constructed and no
\* prediction is made.
C3_ValidationBeforeInference ==
    (Handled /\ ~PassedValidation) =>
        /\ Statuses(last.out) = <<"error", "done">>
        /\ last.lookups = <<>>
        /\ last.ctors = <<>>
        /\ last.predicts = <<>>
        /\ last.memoAfter = last.memoBefore

\* C4: a valid message in mode normal whose architecture_a can be resolved
\* causes exactly one prediction, made by the model of architecture_a, and
\* in the success response verdict B has the detection and the confidence
\* of verdict A.
C4_NormalModeSingleInvocation ==
    (Handled /\ PassedValidation /\ last.msg.mode = "normal"
        /\ Resolvable(last.msg.architecture_a)) =>
        /\ Len(last.predicts) = 1
        /\ last.predicts[1].inst.arch = last.msg.architecture_a
        /\ last.predicts[1].inst = last.memoAfter[last.msg.architecture_a]
        /\ (last.exc = "none" => Len(last.out) = 2)
        /\ (Len(last.out) >= 1 =>
               /\ last.out[1].status = "success"
               /\ last.out[1].architecture_b.detection
                      = last.out[1].architecture_a.detection
               /\ last.out[1].architecture_b.confidence
                      = last.out[1].architecture_a.confidence)

C4_Witness ==
    /\ Handled
    /\ last.msg.mode = "normal"
    /\ last.msg.architecture_a = "m1"
    /\ last.msg.architecture_b = "m2"
    /\ Statuses(last.out) = <<"success", "done">>
    /\ Len(last.predicts) = 1

\* C5: a valid message in mode compare with two different architectures
\* that can both be resolved causes exactly two predictions, the first by
\* the cached model of architecture_a and the second by the cached model of
\* architecture_b, both on the detected face image; verdict A is built from
\* the first result and verdict B from the second.
C5_CompareModeTwoInvocations ==
    (Handled /\ PassedValidation /\ last.msg.mode = "compare"
        /\ last.msg.architecture_a # last.msg.architecture_b
        /\ Resolvable(last.msg.architecture_a)
        /\ Resolvable(last.msg.architecture_b)) =>
        LET a == last.msg.architecture_a
            b == last.msg.architecture_b
            face == last.face_image
        IN  /\ last.predicts = <<[inst |-> last.memoAfter[a], face |-> face],
                                 [inst |-> last.memoAfter[b], face |-> face]>>
            /\ last.memoAfter[a].arch = a
            /\ last.memoAfter[b].arch = b
            /\ last.peer = "connected" =>
                   Statuses(last.out) = <<"success", "done">>
            /\ Len(last.out) >= 1 =>
                   /\ last.out[1].status = "success"
                   /\ last.out[1].architecture_a
                          = Verdict(a, trigger_predict(last.predicts[1].inst,
                                                       face))
                   /\ last.out[1].architecture_b
                          = Verdict(b, trigger_predict(last.predicts[2].inst,
                                                       face))

C5_Witness ==
    /\ Handled
    /\ last.msg.mode = "compare"
    /\ last.msg.architecture_a = "m2"
    /\ last.msg.architecture_b = "m1"
    /\ Len(last.predicts) = 2
    /\ last.out[1].status = "success"
    /\ last.out[1].architecture_a.detection = "alert"
    /\ last.out[1].architecture_b.detection = "drowsy"

\* C6: a request that names an architecture id absent from the registry is
\* answered, the client being connected, with a status error result
\* message.
C6_UnknownArchitectureAnswered ==
    (Handled /\ last.peer = "connected" /\ "missing_id" \in {last.msg.architecture_a,
                                  last.msg.architecture_b}) =>
        /\ Len(last.out) >= 1
        /\ last.out[1].status = "error"

\* C7: an UnknownArchitecture or model construction error aborts only the
\* request in flight: the process keeps serving and the session stays open
\* for the next message.
C7_ErrorKeepsSession ==
    (Handled /\ last.exc \in {"UnknownArchitecture",
                              "ModelConstructionFailure"}) =>
        /\ proc = "serving"
        /\ last.connAfter = "open"

\* C8: once the constructor of an architecture has raised, it is not run
\* again in this process.
C8_NoConstructionRetry ==
    \A id \in ctorFails : ctorRuns[id] >= 1 => ctorRuns[id] = 1

\* C9: on one channel the messages are handled one at a time in arrival
\* order, however the handlers of the other channel are interleaved with
\* them: the k-th invocation of on_message handles the k-th message sent,
\* and the result and done messages of a request are written, in that
\* order, before any output of a later request.
C9_ChannelOrder ==
    \A s \in Channels :
        /\ \A i \in DOMAIN handled[s] : handled[s][i] = i
        /\ \A i, j \in DOMAIN outbox[s] :
               i < j => outbox[s][i].seq <= outbox[s][j].seq
        /\ \A i \in DOMAIN outbox[s] :
               IF outbox[s][i].status = "done"
               THEN /\ i > 1
                    /\ outbox[s][i - 1].seq = outbox[s][i].seq
                    /\ outbox[s][i - 1].status \in {"error", "success"}
               ELSE \/ i = Len(outbox[s])
                    \/ /\ outbox[s][i + 1].seq = outbox[s][i].seq
                       /\ outbox[s][i + 1].status = "done"

\* a channel handles its first message, the other channel handles one, then
\* the first channel handles its second: the two answers of the first
\* channel are complete and in order, and so is the answer of the other
C9_Witness ==
    \E s \in Channels :
        \E t \in Channels \ {s} :
            /\ last.chan = s
            /\ last.seq = 2
            /\ last.prevChan = t
            /\ handled[s] = <<1, 2>>
            /\ handled[t] = <<1>>
            /\ [i \in DOMAIN outbox[s] |-> outbox[s][i].seq] = <<1, 1, 2, 2>>
            /\ [i \in DOMAIN outbox[t] |-> outbox[t][i].seq] = <<1, 1>>
            /\ outbox[s][1].status # outbox[s][3].status

\* C10: when a message answered with success and done is sent again on the
\* same channel, the second answer is again success and done with the same
\* content, the session is open for a next message after it, and the
\* handler's attributes are what they were after the first.
C10_ResendIdempotent ==
    [][(/\ Handled
        /\ Statuses(last.out) = <<"success", "done">>
        /\ on_message(last.chan, last.msg)) =>
           /\ last'.out = last.out
           /\ conn'[last.chan] = "open"
           /\ last'.session = last.session
           /\ SessionState(last.chan)' = last.session]_vars

\* C11: after open the session has a channel id: a fresh one, different
\* from every id in use, when none was supplied, and the supplied one when
\* one was supplied.
C11_ChannelAssignedOnOpen ==
    [][\A s \in Channels, given \in {None, "preassigned"} :
          open(s, given) =>
              /\ conn'[s] = "open"
              /\ channel'[s] # None
              /\ given = None =>
                     channel'[s] \notin {channel[t] : t \in Channels}
              /\ given # None => channel'[s] = given]_vars

\* what _load_architecture returns for id to a handler holding the memo, in
\* the state after the step
ResolvedNext(id) ==
    _load_architecture(StartOfHandler(memo', nextInst'), TRUE, ctorFails',
                       id).ret

\* C12: on_close leaves the shared memo and the registry as they were: the
\* same ids are cached, bound to the same instances, and the sessions that
\* stay open resolve every cached id to the instance they resolved before.
C12_CloseKeepsCache ==
    [][\A s \in Channels :
          on_close(s) =>
              /\ DOMAIN memo' = DOMAIN memo
              /\ memo' = memo
              /\ \A t \in Channels \ {s} :
                     /\ hasMemo'[t] = hasMemo[t]
                     /\ conn'[t] = conn[t]
              /\ \A id \in DOMAIN memo : ResolvedNext(id) = memo[id]]_vars

\* a connection that handled no message was closed by its client while the
\* memo held both models, and another session was served from the memo
\* without constructing anything
C12_Witness ==
    \E s \in Channels :
        /\ conn[s] = "closed"
        /\ handled[s] = <<>>
        /\ DOMAIN memo = Registry
        /\ Handled
        /\ last.chan # s
        /\ outbox[s] = <<>>
        /\ conn[last.chan] = "open"
        /\ Statuses(last.out) = <<"success", "done">>
        /\ last.ctors = <<>>
        /\ Len(last.rets) = 2

\* C13: the memo only grows: over every step (startup preload, open,
\* message, close) an id that is cached stays cached and stays bound to the
\* same instance.
C13_CacheMonotonic ==
    [][\A id \in DOMAIN memo :
          /\ id \in DOMAIN memo'
          /\ memo'[id] = memo[id]]_vars

\* a memo filled lazily by two requests: the second added a model next to
\* the one the first had stored
C13_Witness ==
    /\ Handled
    /\ last.memoBefore # EmptyFn
    /\ last.ctors # <<>>
    /\ DOMAIN last.memoAfter = Registry
    /\ \A id \in DOMAIN last.memoBefore :
           last.memoAfter[id] = last.memoBefore[id]
    /\ memo = last.memoAfter

\* the registry's display names, as the catalog lists them
CatalogName(id) ==
    IF id = "m1" THEN "Model One"
    ELSE IF id = "m2" THEN "Model Two" ELSE None

\* C14: in every success response verdict A carries the request's
\* architecture_a and the registry's canonical name for it, verdict B the
\* request's architecture_b and its canonical name, and the response
\* carries the position face detection produced.
C14_SuccessPayload ==
    (Handled /\ Len(last.out) >= 1 /\ last.out[1].status = "success") =>
        /\ last.out[1].architecture_a.name = last.msg.architecture_a
        /\ last.out[1].architecture_a.canonical_name
               = CatalogName(last.msg.architecture_a)
        /\ last.out[1].architecture_b.name = last.msg.architecture_b
        /\ last.out[1].architecture_b.canonical_name
               = CatalogName(last.msg.architecture_b)
        /\ last.out[1].position = Detect(last.msg.image).position
        /\ last.out[1].position # None

C14_Witness ==
    /\ Handled
    /\ last.msg.mode = "compare"
    /\ last.msg.architecture_a = "m1"
    /\ last.msg.architecture_b = "m2"
    /\ Statuses(last.out) = <<"success", "done">>
    /\ last.out[1].architecture_a.canonical_name = "Model One"
    /\ last.out[1].architecture_b.canonical_name = "Model Two"
    /\ last.out[1].position = "box"

\* how a request ended: with a result message of some status, or raised
OutcomeKind(r) == IF r.h.exc # "none" THEN "raised" ELSE r.out[1].status

\* the detection labels and confidences of a success response
VerdictValues(r) ==
    IF r.h.exc = "none" /\ r.out[1].status = "success"
    THEN <<r.out[1].architecture_a.detection,
           r.out[1].architecture_a.confidence,
           r.out[1].architecture_b.detection,
           r.out[1].architecture_b.confidence>>
    ELSE <<>>

SameOutcome(r1, r2) ==
    /\ OutcomeKind(r1) = OutcomeKind(r2)
    /\ VerdictValues(r1) = VerdictValues(r2)
    /\ r1.h.rets = r2.h.rets
    /\ r1.h.predicts = r2.h.predicts

\* what handler s would do with message m in the current state
WouldAnswer(s, m) ==
    on_message_result(StartOfHandler(memo, nextInst), hasMemo[s],
                      ctorFails, m, 2)

\* C15: in mode normal architecture_b is unused: two requests that differ
\* only in the value of architecture_b, registered or not, end the same
\* way, with the same detection labels and confidences, and resolve and
\* invoke the same models.
C15_NormalModeIgnoresB ==
    \A s \in Channels :
        conn[s] = "open" =>
            \A m \in Messages, b \in ArchValues \ {None} :
                (m.mode = "normal" /\ m.architecture_b # None) =>
                    SameOutcome(WouldAnswer(s, m),
                                WouldAnswer(s, [m EXCEPT
                                                  !.architecture_b = b]))

\* the architecture ids the request needs a model for
NeededArchs(m) ==
    IF is_normal_mode(m) THEN {m.architecture_a}
    ELSE {m.architecture_a, m.architecture_b}

\* C17: a session built without a model cache still serves a valid message
\* of a connected client: the models are built without memoization,
\* nothing is cached, and the client gets a success result followed by
\* done.
C17_NoCacheStillServes ==
    ( /\ Handled
      /\ last.peer = "connected"
      /\ ~last.session.hasMemo
      /\ PassedValidation
      /\ last.msg.architecture_b \in Registry
      /\ NeededArchs(last.msg) \subseteq Registry \ ctorFails )
    =>  /\ Statuses(last.out) = <<"success", "done">>
        /\ last.memoAfter = last.memoBefore
        /\ last.connAfter = "open"

\* C18: when the server is started through the preload, the cache holds
\* exactly the registry's ids whenever a message can be handled, no handled
\* message runs a model constructor (each ran once, at startup), and the
\* cached ids are always registry ids.
C18_PreloadedCacheComplete ==
    /\ DOMAIN memo \subseteq Registry
    /\ proc = "serving" =>
           /\ DOMAIN memo = Registry
           /\ \A id \in Registry : ctorRuns[id] = 1
    /\ Handled =>
           /\ last.ctors = <<>>
           /\ DOMAIN last.memoBefore = Registry
           /\ last.memoAfter = last.memoBefore

C18_Witness ==
    /\ Handled
    /\ last.msg.mode = "compare"
    /\ last.msg.architecture_a = "m1"
    /\ last.msg.architecture_b = "m2"
    /\ Statuses(last.out) = <<"success", "done">>
    /\ Len(last.rets) = 2
    /\ last.ctors = <<>>
    /\ DOMAIN memo = Registry
    /\ \A id \in Registry : ctorRuns[id] = 1

====
